---- MODULE Spec2Model ----
(***************************************************************************)
(* Embedding pipeline of intel-fusion-demo: EmbeddingsService (provider,   *)
(* fallback generator, cache), VectorProcessingService (batch backfill)    *)
(* and IncidentsService.semanticSearch (similarity query).                 *)
(*                                                                         *)
(* Texts are sequences of UTF-16 code units.  A vector is not a list of    *)
(* 384 floats but the data that determines it: a fallback vector is        *)
(* determined by the 32-bit hash it is computed from, a provider vector by *)
(* the text that was submitted; both carry their dimension.                *)
(***************************************************************************)
EXTENDS Integers, Sequences, FiniteSets, TLC

\* ------------------------------------------------------------------ bounds
MaxOps == 3          \* top-level operations started in one behaviour
MaxSmallStore == 2   \* records in an enumerated store
MaxEnumWrites == 2   \* sub-batches with at most this many writes enumerate every failure set
MaxSearchStore == 2  \* rows in an enumerated store of vectors
MaxLimit == 2        \* the largest limit a query passes
MaxSimilarStore == 3 \* rows in a store a "find similar" request runs on
MaxMockLen == 3      \* characters of an enumerated text for the fallback generator

\* ------------------------------------------------------- program constants
BATCH_SIZE == 50
batchSize == 100
MaxInputChars == 8191
MockDim == 384
ProviderDim == 1536
DefaultLimit == 20
DefaultThresholdMilli == 800
DefaultSimilarLimit == 10

\* -------------------------------------------------------------- JS strings
\* A string is a sequence of runs [c |-> code unit, n |-> repetitions >= 1], so
\* that a text longer than the 8191-character cap is as cheap as a short one.
Chars(codes) == [k \in 1..Len(codes) |-> [c |-> codes[k], n |-> 1]]

Repeat(code, times) == <<[c |-> code, n |-> times]>>

\* description?: string -- an absent description (undefined / SQL NULL)
ABSENT == Repeat(-1, 1)

RECURSIVE LengthFrom(_, _)
LengthFrom(str, k) == IF k > Len(str) THEN 0 ELSE str[k].n + LengthFrom(str, k + 1)

\* str.length
Length(str) == LengthFrom(str, 1)

Truthy(text) == text # ABSENT /\ Length(text) > 0

MinOf(S) == CHOOSE x \in S : \A y \in S : x <= y
MaxOf(S) == CHOOSE x \in S : \A y \in S : x >= y

IsWhiteSpace(c) == c \in {9, 10, 11, 12, 13, 32, 160}

LowerChar(c) == IF c \in 65..90 THEN c + 32 ELSE c

toLowerCase(str) == [k \in 1..Len(str) |-> [c |-> LowerChar(str[k].c), n |-> str[k].n]]

trim(str) ==
  LET keep == {k \in 1..Len(str) : ~IsWhiteSpace(str[k].c)}
  IN IF keep = {} THEN <<>> ELSE SubSeq(str, MinOf(keep), MaxOf(keep))

RECURSIVE Take(_, _, _)
Take(str, k, n) ==
  IF k > Len(str) \/ n <= 0 THEN <<>>
  ELSE IF str[k].n <= n THEN <<str[k]>> \o Take(str, k + 1, n - str[k].n)
  ELSE <<[c |-> str[k].c, n |-> n]>>

\* str.substring(0, n)
substring(str, n) == Take(str, 1, n)

\* `!text || text.trim().length === 0`
IsBlank(text) == ~Truthy(text) \/ Length(trim(text)) = 0

\* --------------------------------------------------------------- simpleHash
\* A 32-bit integer is the pair <<high 16 bits, low 16 bits>> of its two's
\* complement, and products are taken in pieces that stay below 2^31.
Mul16Low(x, y) == ((x * (y % 256)) + ((x * (y \div 256)) % 256) * 256) % 65536

Mul16High(x, y) == ((x * (y \div 256)) + ((x * (y % 256)) \div 256)) \div 256

Mul32(a, b) ==
  <<(Mul16High(a[2], b[2]) + Mul16Low(a[1], b[2]) + Mul16Low(a[2], b[1])) % 65536,
    Mul16Low(a[2], b[2])>>

Add32(a, b) ==
  <<(a[1] + b[1] + ((a[2] + b[2]) \div 65536)) % 65536, (a[2] + b[2]) % 65536>>

\* hash = ((hash << 5) - hash) + char ; hash = hash & hash
HashStep(h, c) == Add32(Mul32(h, <<0, 31>>), <<0, c>>)

The(S) == CHOOSE x \in S : TRUE

\* <<31^n, 1 + 31 + ... + 31^(n-1)>> modulo 2^32, by halving n.  (Here and
\* below an intermediate value is bound as a set element, so that it is
\* computed once.)
RECURSIVE PowSum(_)
PowSum(n) ==
  IF n = 0 THEN <<<<0, 1>>, <<0, 0>>>>
  ELSE IF n % 2 = 1
    THEN The({<<Mul32(r[1], <<0, 31>>), Add32(Mul32(r[2], <<0, 31>>), <<0, 1>>)>> :
                r \in {PowSum(n - 1)}})
  ELSE The({<<Mul32(r[1], r[1]), Mul32(r[2], Add32(r[1], <<0, 1>>))>> :
              r \in {PowSum(n \div 2)}})

\* HashStep applied n times with the same code unit c
HashRun(h, c, n) ==
  The({The({The({Add32(x, y) : y \in {Mul32(<<0, c>>, r[2])}}) : x \in {Mul32(h, r[1])}}) :
         r \in {PowSum(n)}})

RECURSIVE HashLoop(_, _, _)
HashLoop(str, i, h) ==
  IF i > Len(str) THEN h
  ELSE The({HashLoop(str, i + 1, g) : g \in {HashRun(h, str[i].c, str[i].n)}})

\* Math.abs of the signed value; abs(-2^31) = 2^31 = <<32768, 0>>
AbsInt32(h) ==
  IF h[1] < 32768 THEN h
  ELSE IF h[2] = 0 THEN <<(65536 - h[1]) % 65536, 0>>
  ELSE <<65535 - h[1], 65536 - h[2]>>

simpleHash(str) == The({AbsInt32(h) : h \in {HashLoop(str, 1, <<0, 0>>)}})

\* `emb_${hash}` is one-to-one in the hash
createCacheKey(text) == simpleHash(trim(toLowerCase(text)))

\* ----------------------------------------------------------------- vectors
NULL == [src |-> "null"]

\* embedding[i] = sin(hash * (i + 1)) * 0.5, then divided by the magnitude:
\* a function of the hash alone, of length 384.
generateMockEmbedding(text) ==
  [src |-> "mock", hash |-> simpleHash(text), dim |-> MockDim]

\* `magnitude = Math.sqrt(sum of val * val)` is 0 exactly when every
\* sin(hash * (i + 1)) is 0: hash * (i + 1) is an integer below 2^53, and the
\* sine of an integer is 0 for the integer 0 only.
MagnitudeIsZero(hash) == hash = <<0, 0>>

\* `embedding.map(val => val / magnitude)`: 0 / 0 is NaN in every component
HasNaN(v) == v.src = "mock" /\ MagnitudeIsZero(v.hash)

\* What openai.embeddings.create answers for one submitted input
\* (model text-embedding-3-small, no `dimensions` parameter).
ProviderEmbedding(input) ==
  [src |-> "provider", text |-> input, dim |-> ProviderDim]

\* ------------------------------------------------------------------- state
VARIABLES
  openai,          \* EmbeddingsService.openai is set (OPENAI_API_KEY configured)
  embeddingCache,  \* EmbeddingsService.embeddingCache: cache key -> vector
  calls,           \* the generateEmbedding / generateBatchEmbeddings calls in flight
  generated,       \* call counter: text -> provider submissions and fallback runs
                   \* since the process started or the cache was last cleared
  incidents,       \* the incidents table: id -> row
  job,             \* the VectorProcessingService operation in flight
  search,          \* the last semanticSearch call: its arguments and its answer
  returned,        \* text -> the generateEmbedding calls completed for it and
                   \* the vectors they returned
  nOps,            \* top-level operations started so far
  update,          \* the updateIncidentEmbeddings call in flight, or how the last ended
  similar,         \* the last findSimilarIncidents call: its arguments and its answer
  stats            \* the last answer of GET stats

vars == <<openai, embeddingCache, calls, generated, incidents, job, search, returned, nOps,
          update, similar, stats>>

\* The places a call can run: the two calls processSingleBatch issues under
\* Promise.all, a call made by a diagnostic endpoint, the call
\* updateIncidentEmbeddings awaits and the call of the semantic-search endpoint.
CallIds == {"title", "description", "diag", "update", "query"}

IdleCall ==
  [pc |-> "idle", op |-> "none", text |-> <<>>, texts |-> <<>>, validTexts |-> <<>>,
   results |-> <<>>, uncachedIndices |-> <<>>, uncachedTexts |-> <<>>,
   i |-> 0, failed |-> FALSE, ret |-> <<>>]

Put(f, k, v) == [x \in (DOMAIN f) \cup {k} |-> IF x = k THEN v ELSE f[x]]

Indices(seq) == [k \in 1..Len(seq) |-> k]

\* needsTitleEmbedding.map(inc => inc.title)
titleTexts(needs) == [k \in 1..Len(needs) |-> needs[k].title]

descriptionTexts(needs) == [k \in 1..Len(needs) |-> needs[k].description]

\* ----------------------------------------------------------- call counter
NoCount == [provider |-> 0, mock |-> 0]

CountOf(g, t) == IF t \in DOMAIN g THEN g[t] ELSE NoCount

Range(seq) == {seq[k] : k \in 1..Len(seq)}

Occurrences(seq, x) == Cardinality({k \in 1..Len(seq) : seq[k] = x})

\* One more submission to the provider, or one more run of the fallback
\* generator, for each text of texts.
Count(g, kind, texts) ==
  [t \in (DOMAIN g) \cup Range(texts) |->
     IF kind = "provider"
       THEN [CountOf(g, t) EXCEPT !.provider = @ + Occurrences(texts, t)]
     ELSE IF kind = "mock"
       THEN [CountOf(g, t) EXCEPT !.mock = @ + Occurrences(texts, t)]
     ELSE CountOf(g, t)]

\* ------------------------------------------------- generateEmbedding(text)
\* A generateEmbedding that never looks into the cache
SingleStartUncached(text, cache, configured) ==
  LET base == [IdleCall EXCEPT !.op = "single", !.text = text]
  IN IF IsBlank(text)
       THEN [call |-> [base EXCEPT !.pc = "done", !.ret = <<NULL>>],
             kind |-> "none", gen |-> <<>>]
     ELSE IF configured
       THEN [call |-> [base EXCEPT !.pc = "await",
                                   !.uncachedTexts = <<substring(text, MaxInputChars)>>],
             kind |-> "provider", gen |-> <<substring(text, MaxInputChars)>>]
     ELSE [call |-> [base EXCEPT !.pc = "done", !.ret = <<generateMockEmbedding(text)>>],
           kind |-> "mock", gen |-> <<text>>]

\* The synchronous part, up to the await of the provider call.
SingleStart(text, cache, configured) ==
  LET base == [IdleCall EXCEPT !.op = "single", !.text = text]
      cacheKey == createCacheKey(text)
  IN IF IsBlank(text)
       THEN [call |-> [base EXCEPT !.pc = "done", !.ret = <<NULL>>],
             kind |-> "none", gen |-> <<>>]
     ELSE IF cacheKey \in DOMAIN cache
       THEN [call |-> [base EXCEPT !.pc = "done", !.ret = <<cache[cacheKey]>>],
             kind |-> "none", gen |-> <<>>]
     ELSE IF configured
       THEN [call |-> [base EXCEPT !.pc = "await",
                                   !.uncachedTexts = <<substring(text, MaxInputChars)>>],
             kind |-> "provider", gen |-> <<substring(text, MaxInputChars)>>]
     ELSE [call |-> [base EXCEPT !.pc = "done", !.ret = <<generateMockEmbedding(text)>>],
           kind |-> "mock", gen |-> <<text>>]

\* The provider answered (ok) or the call threw (~ok).
SingleResume(call, cache, ok) ==
  IF ok
    THEN LET embedding == ProviderEmbedding(call.uncachedTexts[1])
         IN [call |-> [call EXCEPT !.pc = "done", !.ret = <<embedding>>],
             cache |-> Put(cache, createCacheKey(call.text), embedding),
             kind |-> "none", gen |-> <<>>]
    ELSE [call |-> [call EXCEPT !.pc = "done", !.failed = TRUE,
                                !.ret = <<generateMockEmbedding(call.text)>>],
          cache |-> cache, kind |-> "mock", gen |-> <<call.text>>]

\* ------------------------------------------ generateBatchEmbeddings(texts)
\* uncachedIndices.forEach((index, i) => results[index] = mock(uncachedTexts[i]))
\* The last position of seq that holds x
LastAt(seq, x) == MaxOf({k \in 1..Len(seq) : seq[k] = x})

MockAll(results, uncachedIndices, uncachedTexts) ==
  [index \in 1..Len(results) |->
     IF index \in Range(uncachedIndices)
       THEN generateMockEmbedding(uncachedTexts[LastAt(uncachedIndices, index)])
       ELSE results[index]]

\* A slice that starts at 0 whatever i is
ChunkFromStart(seq, i) == SubSeq(seq, 1, IF batchSize < Len(seq) THEN batchSize ELSE Len(seq))

\* The chunk uncachedTexts.slice(i, i + batchSize), i counted from 0
Chunk(seq, i) == SubSeq(seq, i + 1, IF i + batchSize < Len(seq) THEN i + batchSize ELSE Len(seq))

BatchStart(texts, cache, configured) ==
  LET validTexts == SelectSeq(texts, LAMBDA t : ~IsBlank(t))
      base == [IdleCall EXCEPT !.op = "batch", !.texts = texts, !.validTexts = validTexts]
      cached(k) == createCacheKey(validTexts[k]) \in DOMAIN cache
      results == [k \in 1..Len(validTexts) |->
                    IF cached(k) THEN cache[createCacheKey(validTexts[k])] ELSE NULL]
      uncachedIndices == SelectSeq(Indices(validTexts), LAMBDA k : ~cached(k))
      uncachedTexts == [k \in 1..Len(uncachedIndices) |->
                          substring(validTexts[uncachedIndices[k]], MaxInputChars)]
      filled == [base EXCEPT !.results = results, !.uncachedIndices = uncachedIndices,
                             !.uncachedTexts = uncachedTexts]
  IN IF Len(validTexts) = 0
       THEN [call |-> [base EXCEPT !.pc = "done", !.ret = <<>>], kind |-> "none", gen |-> <<>>]
     ELSE IF Len(uncachedTexts) = 0
       THEN [call |-> [filled EXCEPT !.pc = "done", !.ret = results],
             kind |-> "none", gen |-> <<>>]
     ELSE IF configured
       THEN [call |-> [filled EXCEPT !.pc = "await", !.i = 0],
             kind |-> "provider", gen |-> Chunk(uncachedTexts, 0)]
     ELSE LET mocked == MockAll(results, uncachedIndices, uncachedTexts)
          IN [call |-> [filled EXCEPT !.pc = "done", !.results = mocked, !.ret = mocked],
              kind |-> "mock", gen |-> uncachedTexts]

\* response.data.forEach: store the chunk's embeddings and cache each of them
\* (a key set twice keeps the embedding set last)
StoreChunk(call, cache) ==
  LET batch == Chunk(call.uncachedTexts, call.i)
      batchIndices == Chunk(call.uncachedIndices, call.i)
      keys == [k \in 1..Len(batch) |-> createCacheKey(call.validTexts[batchIndices[k]])]
  IN [results |-> [index \in 1..Len(call.results) |->
                     IF index \in Range(batchIndices)
                       THEN ProviderEmbedding(batch[LastAt(batchIndices, index)])
                       ELSE call.results[index]],
      cache |-> [key \in (DOMAIN cache) \cup Range(keys) |->
                   IF key \in Range(keys) THEN ProviderEmbedding(batch[LastAt(keys, key)])
                   ELSE cache[key]]]

BatchResume(call, cache, ok) ==
  IF ok
    THEN LET st == StoreChunk(call, cache)
             next == call.i + batchSize
         IN IF next < Len(call.uncachedTexts)
              THEN [call |-> [call EXCEPT !.results = st.results, !.i = next],
                    cache |-> st.cache, kind |-> "provider",
                    gen |-> Chunk(call.uncachedTexts, next)]
              ELSE [call |-> [call EXCEPT !.pc = "done", !.results = st.results,
                                          !.ret = st.results],
                    cache |-> st.cache, kind |-> "none", gen |-> <<>>]
    ELSE LET mocked == MockAll(call.results, call.uncachedIndices, call.uncachedTexts)
         IN [call |-> [call EXCEPT !.pc = "done", !.failed = TRUE, !.results = mocked,
                                   !.ret = mocked],
             cache |-> cache, kind |-> "mock", gen |-> call.uncachedTexts]

Resume(call, cache, ok) ==
  IF call.op = "single" THEN SingleResume(call, cache, ok) ELSE BatchResume(call, cache, ok)

\* ------------------------------------------------- VectorProcessingService
IdleJob ==
  [pc |-> "idle", op |-> "none", list |-> <<>>, i |-> 0, processed |-> 0, errors |-> 0,
   needsTitle |-> <<>>, needsDescription |-> <<>>,
   outcomes |-> <<>>,                   \* per sub-batch so far: did it throw
   prev |-> [op |-> "none", errors |-> 0],  \* the operation that ran just before
   had |-> {},                          \* rebuildAllEmbeddings: the rows it cleared a vector of
   ret |-> [processed |-> 0, errors |-> 0]]

JobFree == job.pc \in {"idle", "done", "threw"}

\* getMany() / find(): the rows in id order
AllRows(store) == [k \in 1..Cardinality(DOMAIN store) |-> store[k]]

\* .where('incident.title_vector IS NULL OR incident.description_vector IS NULL')
MissingEmbedding(row) == row.title_vector = NULL \/ row.description_vector = NULL

\* processBatchEmbeddings(incidents), up to its first sub-batch
BatchJob(op, list, before) ==
  LET prev == [op |-> IF before.pc = "done" THEN before.op ELSE "none",
               errors |-> before.ret.errors]
  IN IF Len(list) = 0
       THEN [IdleJob EXCEPT !.pc = "done", !.op = op, !.prev = prev]
       ELSE [IdleJob EXCEPT !.pc = "loop", !.op = op, !.list = list, !.prev = prev]

\* A slice that runs to the end of the list
SliceToEnd(list, i) == SubSeq(list, i + 1, Len(list))

\* incidents.slice(i, i + BATCH_SIZE), i counted from 0
Slice(list, i) ==
  SubSeq(list, i + 1, IF i + BATCH_SIZE < Len(list) THEN i + BATCH_SIZE ELSE Len(list))

\* processSingleBatch: who needs which embedding
NeedsTitleEmbedding(batch) ==
  SelectSeq(batch, LAMBDA inc : inc.title_vector = NULL /\ Truthy(inc.title))

NeedsDescriptionEmbedding(batch) ==
  SelectSeq(batch, LAMBDA inc : inc.description_vector = NULL /\ Truthy(inc.description))

\* `texts.length > 0 ? generateBatchEmbeddings(texts) : []`
CallOrEmpty(texts, cache, configured) ==
  IF Len(texts) > 0 THEN BatchStart(texts, cache, configured)
  ELSE [call |-> [IdleCall EXCEPT !.pc = "done", !.op = "batch"], kind |-> "none", gen |-> <<>>]

\* needs.forEach((incident, index) => { if (embeddings[index]) updates.push(update(...)) })
UpdatesFor(needs, embeddings, field) ==
  LET hit == SelectSeq(Indices(needs),
                       LAMBDA k : k <= Len(embeddings) /\ embeddings[k] # NULL)
  IN [k \in 1..Len(hit) |->
        [id |-> needs[hit[k]].id, field |-> field, vec |-> embeddings[hit[k]]]]

\* repository.update({ id }, { field: vec }) on the table as it is now
WriteRow(row, field, vec) ==
  IF field = "title_vector" THEN [row EXCEPT !.title_vector = vec]
  ELSE [row EXCEPT !.description_vector = vec]

\* The writes that target (id, field) and are not rejected
WritesTo(updates, failed, id, field) ==
  {k \in 1..Len(updates) : k \notin failed /\ updates[k].id = id /\ updates[k].field = field}

WriteField(row, updates, failed, field) ==
  LET ks == WritesTo(updates, failed, row.id, field)
  IN IF ks = {} THEN row ELSE WriteRow(row, field, updates[MaxOf(ks)].vec)

\* Every write of the sub-batch that the store accepts, applied
ApplyWrites(store, updates, failed) ==
  [id \in DOMAIN store |->
     WriteField(WriteField(store[id], updates, failed, "title_vector"),
                updates, failed, "description_vector")]

\* Which of the n writes of a sub-batch the store rejects.
FailureSets(n) ==
  IF n <= MaxEnumWrites THEN SUBSET (1..n) ELSE {{}, {1}, {n}, 1..n}

\* A loop without the try/catch: the first sub-batch that throws ends the job.
AfterBatchAbort(j, threw) ==
  LET batch == Slice(j.list, j.i)
      processed == IF threw THEN j.processed ELSE j.processed + Len(batch)
      errors == IF threw THEN j.errors + Len(batch) ELSE j.errors
      counted == [j EXCEPT !.processed = processed, !.errors = errors,
                           !.i = j.i + BATCH_SIZE,
                           !.needsTitle = <<>>, !.needsDescription = <<>>,
                           !.outcomes = Append(@, threw)]
  IN IF ~threw /\ j.i + BATCH_SIZE < Len(j.list)
       THEN [counted EXCEPT !.pc = "loop"]
       ELSE [counted EXCEPT !.pc = "done",
                            !.ret = [processed |-> processed, errors |-> errors]]

\* try { await processSingleBatch(batch); processed += batch.length }
\* catch { errors += batch.length }
AfterBatch(j, threw) ==
  LET batch == Slice(j.list, j.i)
      processed == IF threw THEN j.processed ELSE j.processed + Len(batch)
      errors == IF threw THEN j.errors + Len(batch) ELSE j.errors
      next == j.i + BATCH_SIZE
      counted == [j EXCEPT !.processed = processed, !.errors = errors, !.i = next,
                           !.needsTitle = <<>>, !.needsDescription = <<>>,
                           !.outcomes = Append(@, threw)]
  IN IF next < Len(j.list)
       THEN [counted EXCEPT !.pc = "loop"]
       ELSE [counted EXCEPT !.pc = "done",
                            !.ret = [processed |-> processed, errors |-> errors]]

\* --------------------------------------------- IncidentsService.semanticSearch
\* An argument the caller left out (undefined)
Absent == -1000
\* A date string `new Date()` cannot parse
InvalidDate == -2000
NoCategories == {"<absent>"}

\* The day on which the query runs: `new Date()`
Today == 10

\* pgvector's `<=>` (cosine distance, in thousandths) on the directions the
\* stored and query vectors point in: twelve directions, 30 degrees apart.
CosMilli == <<1000, 866, 500, 0, -500, -866, -1000>>

Low16(v) == IF v.src = "mock" THEN v.hash[2] ELSE simpleHash(v.text)[2]

Direction(v) == Low16(v) % 12

CosineDistance(v, w) ==
  LET d == IF Direction(v) >= Direction(w) THEN Direction(v) - Direction(w)
           ELSE Direction(w) - Direction(v)
      turn == IF d > 6 THEN 12 - d ELSE d
  IN 1000 - CosMilli[turn + 1]

\* `filters?.similarityThreshold || 0.8`
ThresholdOr(similarityThreshold) ==
  IF similarityThreshold = Absent \/ similarityThreshold = 0
    THEN DefaultThresholdMilli ELSE similarityThreshold

\* `limit: number = 20`
LimitOr(limit) == IF limit = Absent THEN DefaultLimit ELSE limit

\* `filters?.startDate ? new Date(filters.startDate) : yesterday` (and tomorrow)
StartOr(startDate) == IF startDate = Absent THEN Today - 1 ELSE startDate

EndOr(endDate) == IF endDate = Absent THEN Today + 1 ELSE endDate

\* `filters?.categories && filters.categories.length > 0`
CategoryFilterApplies(categories) == categories # NoCategories /\ categories # {}

\* A WHERE clause of the vector predicate alone
SelectedByDistance(row, embedding, filters) ==
  /\ row.title_vector # NULL
  /\ CosineDistance(row.title_vector, embedding) < ThresholdOr(filters.similarityThreshold)

\* The WHERE clause
Selected(row, embedding, filters) ==
  /\ row.title_vector # NULL
  /\ CosineDistance(row.title_vector, embedding) < ThresholdOr(filters.similarityThreshold)
  /\ CategoryFilterApplies(filters.categories) => row.category \in filters.categories
  /\ row.datetime >= StartOr(filters.startDate)
  /\ row.datetime <= EndOr(filters.endDate)

Scored(row, embedding) ==
  [id |-> row.id, category |-> row.category, datetime |-> row.datetime,
   similarity_score |-> CosineDistance(row.title_vector, embedding)]

\* ORDER BY distance DESC
PrecedesDescending(x, y, tieAsc) ==
  \/ x.similarity_score > y.similarity_score
  \/ /\ x.similarity_score = y.similarity_score
     /\ IF tieAsc THEN x.id < y.id ELSE x.id > y.id

\* ORDER BY distance ASC.  SQL leaves the order of equal distances open; the
\* two orders modelled are by ascending and by descending id.
Precedes(x, y, tieAsc) ==
  \/ x.similarity_score < y.similarity_score
  \/ /\ x.similarity_score = y.similarity_score
     /\ IF tieAsc THEN x.id < y.id ELSE x.id > y.id

RECURSIVE Insert(_, _, _, _)
Insert(sorted, k, x, tieAsc) ==
  IF k > Len(sorted) THEN Append(sorted, x)
  ELSE IF Precedes(x, sorted[k], tieAsc)
    THEN SubSeq(sorted, 1, k - 1) \o <<x>> \o SubSeq(sorted, k, Len(sorted))
  ELSE Insert(sorted, k + 1, x, tieAsc)

RECURSIVE OrderBy(_, _, _)
OrderBy(rows, k, tieAsc) ==
  IF k > Len(rows) THEN <<>>
  ELSE The({Insert(rest, 1, rows[k], tieAsc) : rest \in {OrderBy(rows, k + 1, tieAsc)}})

\* .limit(limit)
LimitTo(rows, limit) == SubSeq(rows, 1, IF Len(rows) < limit THEN Len(rows) ELSE limit)

semanticSearch(store, embedding, limit, filters, tieAsc) ==
  IF filters.startDate = InvalidDate \/ filters.endDate = InvalidDate
    THEN [called |-> TRUE, threw |-> TRUE, embedding |-> embedding, limit |-> limit,
          filters |-> filters, results |-> <<>>]
    ELSE LET hits == SelectSeq(AllRows(store), LAMBDA row : Selected(row, embedding, filters))
             scored == [k \in 1..Len(hits) |-> Scored(hits[k], embedding)]
         IN [called |-> TRUE, threw |-> FALSE, embedding |-> embedding, limit |-> limit,
             filters |-> filters,
             results |-> LimitTo(OrderBy(scored, 1, tieAsc), LimitOr(limit))]

\* ------------------------------------- IncidentsService.findSimilarIncidents
\* `limit: number = 10`
SimilarLimitOr(limit) == IF limit = Absent THEN DefaultSimilarLimit ELSE limit

\* where title_vector IS NOT NULL and id != :incidentId
SelectedSimilar(row, incidentId) == row.title_vector # NULL /\ row.id # incidentId

findSimilarIncidents(store, incidentId, limit, tieAsc) ==
  IF incidentId \notin DOMAIN store \/ store[incidentId].title_vector = NULL
    THEN [called |-> TRUE, threw |-> FALSE, id |-> incidentId, limit |-> limit,
          results |-> <<>>]
    ELSE LET embedding == store[incidentId].title_vector
             hits == SelectSeq(AllRows(store), LAMBDA row : SelectedSimilar(row, incidentId))
             scored == [k \in 1..Len(hits) |-> Scored(hits[k], embedding)]
         IN [called |-> TRUE, threw |-> FALSE, id |-> incidentId, limit |-> limit,
             results |-> LimitTo(OrderBy(scored, 1, tieAsc), SimilarLimitOr(limit))]

\* ---------------------------------------------------------------- the rows
Row(id, title, description, category, datetime, tv, dv) ==
  [id |-> id, title |-> title, description |-> description, category |-> category,
   datetime |-> datetime, title_vector |-> tv, description_vector |-> dv]

EmptyMap == [x \in {} |-> NULL]

NoSearch == [called |-> FALSE]

NoSimilar == [called |-> FALSE]

NoStats == [asked |-> FALSE]

\* updateIncidentEmbeddings: no call made yet
IdleUpdate == [pc |-> "idle", id |-> 0, incident |-> NULL, updates |-> <<>>]

InitWith(stores, keys) ==
  /\ openai \in keys
  /\ embeddingCache = EmptyMap
  /\ calls = [c \in CallIds |-> IdleCall]
  /\ generated = EmptyMap
  /\ incidents \in stores
  /\ job = IdleJob
  /\ search = NoSearch
  /\ returned = EmptyMap
  /\ nOps = 0
  /\ update = IdleUpdate
  /\ similar = NoSimilar
  /\ stats = NoStats

\* What generateEmbedding has handed back for each non-blank text
NoReturns == [calls |-> 0, vectors |-> {}]

RecordReturn(r, call) ==
  IF call.op = "single" /\ call.pc = "done" /\ ~IsBlank(call.text)
    THEN LET old == IF call.text \in DOMAIN r THEN r[call.text] ELSE NoReturns
         IN Put(r, call.text, [calls |-> old.calls + 1,
                               vectors |-> old.vectors \cup {call.ret[1]}])
    ELSE r

\* ------------------------------------------- controller: diagnostic calls
\* A fallback generator seeded by the moment of the call rather than by the text
TestEmbeddingSeeded(text) ==
  /\ nOps < MaxOps
  /\ calls["diag"].pc # "await"
  /\ LET r == SingleStart(text, embeddingCache, openai)
         seeded == IF r.kind = "mock"
                     THEN [r.call EXCEPT !.ret = <<generateMockEmbedding(
                                                     text \o Chars(<<48 + nOps>>))>>]
                     ELSE r.call
     IN /\ calls' = [calls EXCEPT !["diag"] = seeded]
        /\ generated' = Count(generated, r.kind, r.gen)
        /\ returned' = RecordReturn(returned, seeded)
  /\ nOps' = nOps + 1
  /\ UNCHANGED <<openai, embeddingCache, incidents, job, search,
                 update, similar, stats>>

\* POST test-embedding
TestEmbedding(text) ==
  /\ nOps < MaxOps
  /\ calls["diag"].pc # "await"
  /\ LET r == SingleStart(text, embeddingCache, openai)
     IN /\ calls' = [calls EXCEPT !["diag"] = r.call]
        /\ generated' = Count(generated, r.kind, r.gen)
        /\ returned' = RecordReturn(returned, r.call)
  /\ nOps' = nOps + 1
  /\ UNCHANGED <<openai, embeddingCache, incidents, job, search,
                 update, similar, stats>>

\* POST test-batch-embedding
TestBatchEmbedding(texts) ==
  /\ nOps < MaxOps
  /\ calls["diag"].pc # "await"
  /\ LET r == BatchStart(texts, embeddingCache, openai)
     IN /\ calls' = [calls EXCEPT !["diag"] = r.call]
        /\ generated' = Count(generated, r.kind, r.gen)
  /\ nOps' = nOps + 1
  /\ UNCHANGED <<openai, embeddingCache, incidents, job, search, returned,
                 update, similar, stats>>

\* The awaited openai.embeddings.create of call c settles.
ProviderSettles(c, ok) ==
  /\ calls[c].pc = "await"
  /\ \E r \in {Resume(calls[c], embeddingCache, ok)} :
        /\ calls' = [calls EXCEPT ![c] = r.call]
        /\ embeddingCache' = r.cache
        /\ generated' = Count(generated, r.kind, r.gen)
        /\ returned' = RecordReturn(returned, r.call)
  /\ UNCHANGED <<openai, incidents, job, search, nOps,
                 update, similar, stats>>

ProviderAnswers(c) == ProviderSettles(c, TRUE)

ProviderFails(c) == ProviderSettles(c, FALSE)

\* A clear-cache that also deletes the persisted vectors
ClearCacheAndVectors ==
  /\ nOps < MaxOps
  /\ embeddingCache' = EmptyMap
  /\ generated' = EmptyMap
  /\ incidents' = [id \in DOMAIN incidents |->
                     [incidents[id] EXCEPT !.title_vector = NULL, !.description_vector = NULL]]
  /\ nOps' = nOps + 1
  /\ UNCHANGED <<openai, calls, job, search, returned, update, similar, stats>>

\* POST clear-cache
ClearCache ==
  /\ nOps < MaxOps
  /\ embeddingCache' = EmptyMap
  /\ generated' = EmptyMap
  /\ nOps' = nOps + 1
  /\ UNCHANGED <<openai, calls, incidents, job, search, returned,
                 update, similar, stats>>

\* ------------------------------------------------------ batch job actions
\* POST process-missing
ProcessAllMissingEmbeddings ==
  /\ nOps < MaxOps
  /\ JobFree
  /\ job' = BatchJob("processAllMissing", SelectSeq(AllRows(incidents), MissingEmbedding), job)
  /\ nOps' = nOps + 1
  /\ UNCHANGED <<openai, embeddingCache, calls, generated, incidents, search, returned,
                 update, similar, stats>>

\* processBatchEmbeddings(incidents) called with rows read from the table
ProcessBatchEmbeddings(list) ==
  /\ nOps < MaxOps
  /\ JobFree
  /\ job' = BatchJob("processBatch", list, job)
  /\ nOps' = nOps + 1
  /\ UNCHANGED <<openai, embeddingCache, calls, generated, incidents, search, returned,
                 update, similar, stats>>

\* processSingleBatch up to `await Promise.all([...generateBatchEmbeddings])`
BatchBegin ==
  /\ job.pc = "loop"
  /\ \E batch \in {Slice(job.list, job.i)} :
     \E nt \in {NeedsTitleEmbedding(batch)}, nd \in {NeedsDescriptionEmbedding(batch)} :
     \E tt \in {titleTexts(nt)}, dt \in {descriptionTexts(nd)} :
     \E t \in {CallOrEmpty(tt, embeddingCache, openai)},
        d \in {CallOrEmpty(dt, embeddingCache, openai)} :
        /\ calls' = [calls EXCEPT !["title"] = t.call, !["description"] = d.call]
        /\ generated' = Count(Count(generated, t.kind, t.gen), d.kind, d.gen)
        /\ job' = [job EXCEPT !.pc = "gen", !.needsTitle = nt, !.needsDescription = nd]
  /\ UNCHANGED <<openai, embeddingCache, incidents, search, returned, nOps,
                 update, similar, stats>>

\* processSingleBatch from the updates to `await Promise.all(updates)`, then the
\* try/catch and the sleep of processBatchEmbeddings.
BatchWrite ==
  /\ job.pc = "gen"
  /\ calls["title"].pc = "done"
  /\ calls["description"].pc = "done"
  /\ LET updates == UpdatesFor(job.needsTitle, calls["title"].ret, "title_vector")
                    \o UpdatesFor(job.needsDescription, calls["description"].ret,
                                  "description_vector")
     IN \E failed \in FailureSets(Len(updates)) :
          /\ incidents' = ApplyWrites(incidents, updates, failed)
          /\ job' = AfterBatch(job, failed # {})
  /\ calls' = [calls EXCEPT !["title"] = IdleCall, !["description"] = IdleCall]
  /\ UNCHANGED <<openai, embeddingCache, generated, search, returned, nOps,
                 update, similar, stats>>

\* POST rebuild-all: clear every vector, read the table, process it
\* A rebuild that clears nothing
KeptRow(row) == row

ClearedRow(row) == [row EXCEPT !.title_vector = NULL, !.description_vector = NULL]

RebuildAllEmbeddings ==
  /\ nOps < MaxOps
  /\ JobFree
  /\ LET cleared == [id \in DOMAIN incidents |-> ClearedRow(incidents[id])]
         had == {id \in DOMAIN incidents : incidents[id] # cleared[id]}
     IN /\ incidents' = cleared
        /\ job' = [BatchJob("rebuildAll", AllRows(cleared), job) EXCEPT !.had = had]
  /\ nOps' = nOps + 1
  /\ UNCHANGED <<openai, embeddingCache, calls, generated, search, returned,
                 update, similar, stats>>

\* ------------------------------------------------ updateIncidentEmbeddings
UpdateFree == update.pc \in {"idle", "done", "threw"}

\* A lookup that returns quietly when there is no such row
UpdateIncidentEmbeddingsQuiet(incidentId) ==
  /\ nOps < MaxOps
  /\ UpdateFree
  /\ update' = IF incidentId \in DOMAIN incidents
                 THEN [IdleUpdate EXCEPT !.pc = "title", !.id = incidentId,
                                         !.incident = incidents[incidentId]]
                 ELSE [IdleUpdate EXCEPT !.pc = "done", !.id = incidentId]
  /\ nOps' = nOps + 1
  /\ UNCHANGED <<openai, embeddingCache, calls, generated, incidents, job, search, returned,
                 similar, stats>>

\* POST process-incident: findOne, and the throw when there is no such row
UpdateIncidentEmbeddings(incidentId) ==
  /\ nOps < MaxOps
  /\ UpdateFree
  /\ update' = IF incidentId \in DOMAIN incidents
                 THEN [IdleUpdate EXCEPT !.pc = "title", !.id = incidentId,
                                         !.incident = incidents[incidentId]]
                 ELSE [IdleUpdate EXCEPT !.pc = "threw", !.id = incidentId]
  /\ nOps' = nOps + 1
  /\ UNCHANGED <<openai, embeddingCache, calls, generated, incidents, job, search, returned,
                 similar, stats>>

\* `if (incident.title && !incident.title_vector)` and its description twin:
\* the text to embed for the field update.pc names, or none
UpdateText ==
  IF update.pc = "title"
    THEN IF Truthy(update.incident.title) /\ update.incident.title_vector = NULL
           THEN <<update.incident.title>> ELSE <<>>
    ELSE IF Truthy(update.incident.description) /\ update.incident.description_vector = NULL
           THEN <<update.incident.description>> ELSE <<>>

\* generateEmbedding is called for the field, or the field is skipped
UpdateEmbed ==
  /\ update.pc \in {"title", "description"}
  /\ IF UpdateText = <<>>
       THEN /\ update' = [update EXCEPT !.pc = IF @ = "title" THEN "description" ELSE "write"]
            /\ UNCHANGED <<calls, generated>>
       ELSE LET r == SingleStart(UpdateText[1], embeddingCache, openai)
            IN /\ calls' = [calls EXCEPT !["update"] = r.call]
               /\ generated' = Count(generated, r.kind, r.gen)
               /\ update' = [update EXCEPT !.pc = IF @ = "title" THEN "titleEmbedding"
                                                   ELSE "descriptionEmbedding"]
  /\ UNCHANGED <<openai, embeddingCache, incidents, job, search, returned, nOps,
                 similar, stats>>

\* `if (titleEmbedding) updates.title_vector = titleEmbedding` and its twin
UpdateCollect ==
  /\ update.pc \in {"titleEmbedding", "descriptionEmbedding"}
  /\ calls["update"].pc = "done"
  /\ LET embedding == calls["update"].ret[1]
         field == IF update.pc = "titleEmbedding" THEN "title_vector" ELSE "description_vector"
     IN update' = [update EXCEPT
                     !.pc = IF @ = "titleEmbedding" THEN "description" ELSE "write",
                     !.updates = IF embedding # NULL
                                   THEN Append(@, [field |-> field, vec |-> embedding])
                                   ELSE @]
  /\ calls' = [calls EXCEPT !["update"] = IdleCall]
  /\ UNCHANGED <<openai, embeddingCache, generated, incidents, job, search, returned, nOps,
                 similar, stats>>

\* The fields of updates written into row
RECURSIVE WriteAll(_, _, _)
WriteAll(row, updates, k) ==
  IF k > Len(updates) THEN row
  ELSE WriteAll(WriteRow(row, updates[k].field, updates[k].vec), updates, k + 1)

\* `if (Object.keys(updates).length > 0) await repository.update({ id }, updates)`:
\* one UPDATE statement, which the store runs (ok) or rejects
UpdateWrite(ok) ==
  /\ update.pc = "write"
  /\ IF Len(update.updates) = 0
       THEN /\ ok
            /\ update' = [update EXCEPT !.pc = "done"]
            /\ UNCHANGED incidents
       ELSE IF ok
         THEN /\ incidents' = [incidents EXCEPT
                                 ![update.id] = WriteAll(@, update.updates, 1)]
              /\ update' = [update EXCEPT !.pc = "done"]
         ELSE /\ update' = [update EXCEPT !.pc = "threw"]
              /\ UNCHANGED incidents
  /\ UNCHANGED <<openai, embeddingCache, calls, generated, job, search, returned, nOps,
                 similar, stats>>

\* ------------------------------------------------------------- GET stats
\* getEmbeddingStats and getCacheStats
getEmbeddingStats(store) ==
  [total |-> Cardinality(DOMAIN store),
   withTitleEmbedding |-> Cardinality({id \in DOMAIN store : store[id].title_vector # NULL}),
   withDescriptionEmbedding |->
     Cardinality({id \in DOMAIN store : store[id].description_vector # NULL}),
   missingEmbeddings |-> Cardinality({id \in DOMAIN store : MissingEmbedding(store[id])})]

getCacheStats(cache) ==
  [size |-> Cardinality(DOMAIN cache),
   memoryUsage |-> Cardinality(DOMAIN cache) * MockDim * 8]

GetEmbeddingStats ==
  /\ stats' = [asked |-> TRUE,
               embedding_coverage |-> getEmbeddingStats(incidents),
               cache_performance |-> getCacheStats(embeddingCache)]
  /\ UNCHANGED <<openai, embeddingCache, calls, generated, incidents, job, search, returned,
                 nOps, update, similar>>

\* ------------------------------------------------------------ search action
SemanticSearch(embedding, limit, filters, tieAsc) ==
  /\ search' = semanticSearch(incidents, embedding, limit, filters, tieAsc)
  /\ UNCHANGED <<openai, embeddingCache, calls, generated, incidents, job, returned, nOps,
                 update, similar, stats>>

\* GET :id/similar
FindSimilarIncidents(incidentId, limit, tieAsc) ==
  /\ similar' = findSimilarIncidents(incidents, incidentId, limit, tieAsc)
  /\ UNCHANGED <<openai, embeddingCache, calls, generated, incidents, job, search, returned,
                 nOps, update, stats>>

\* POST semantic-search, up to `await generateEmbedding(body.query)`
SearchRequest(query, limit, filters) ==
  /\ nOps < MaxOps
  /\ calls["query"].pc = "idle"
  /\ LET r == SingleStart(query, embeddingCache, openai)
     IN /\ calls' = [calls EXCEPT !["query"] = r.call]
        /\ generated' = Count(generated, r.kind, r.gen)
  /\ search' = [called |-> FALSE, query |-> query, limit |-> limit, filters |-> filters]
  /\ nOps' = nOps + 1
  /\ UNCHANGED <<openai, embeddingCache, incidents, job, returned, update, similar, stats>>

\* `if (!embedding) throw ...`, else IncidentsService.semanticSearch
SearchAnswer(tieAsc) ==
  /\ calls["query"].pc = "done"
  /\ LET embedding == calls["query"].ret[1]
     IN search' = IF embedding = NULL
                    THEN [called |-> TRUE, threw |-> TRUE, embedding |-> NULL,
                          limit |-> search.limit, filters |-> search.filters,
                          results |-> <<>>]
                    ELSE semanticSearch(incidents, embedding, search.limit, search.filters,
                                        tieAsc)
  /\ calls' = [calls EXCEPT !["query"].pc = "idle"]
  /\ UNCHANGED <<openai, embeddingCache, generated, incidents, job, returned, nOps,
                 update, similar, stats>>

\* ------------------------------------------------------------------ inputs
a == Chars(<<97>>)
b == Chars(<<98>>)
c == Chars(<<99>>)
d == Chars(<<100>>)
upperA == Chars(<<65>>)
blank == Chars(<<32>>)
tooLong == Repeat(97, MaxInputChars + 1)

\* Enumerated stores of freshly ingested rows (no vector yet)
TitleTexts == {a, upperA, blank}
DescriptionTexts == {ABSENT, <<>>, a}

SmallStores ==
  UNION {{[id \in 1..n |-> Row(id, t[id], ds[id], "burglary", Today, NULL, NULL)] :
            t \in [1..n -> TitleTexts], ds \in [1..n -> DescriptionTexts]} :
         n \in 1..MaxSmallStore}

\* A store of n rows that needs more than one sub-batch
LargeStore(n) ==
  [id \in 1..n |-> Row(id, IF id % 2 = 1 THEN a ELSE b,
                       IF id % 3 = 0 THEN ABSENT ELSE c, "burglary", Today, NULL, NULL)]

LargeStores == {LargeStore(BATCH_SIZE + 1), LargeStore(2 * BATCH_SIZE + 1)}

DiagTexts == {a, Chars(<<32, 65>>), <<>>, tooLong}

\* body.texts: a duplicate, two spellings of one cache key, an empty text,
\* texts over the input cap, nothing but empty texts
DiagBatches ==
  {<<a, a>>, <<Chars(<<32, 65>>), a>>, <<<<>>, a>>, <<tooLong, a>>, <<tooLong, tooLong>>,
   <<<<>>, <<>>>>}

\* ----------------------------------------------------------- specifications
\* The embeddings service alone, driven by the diagnostic endpoints.
InitEmb == InitWith({LargeStore(1)}, BOOLEAN)

NextEmb ==
  \/ \E text \in DiagTexts : TestEmbedding(text)
  \/ \E texts \in DiagBatches : TestBatchEmbedding(texts)
  \/ ProviderAnswers("diag")
  \/ ProviderFails("diag")
  \/ ClearCache

SpecEmb == InitEmb /\ [][NextEmb]_vars

\* The backfill job on the enumerated stores.
Init == InitWith(SmallStores, BOOLEAN)

Next ==
  \/ ProcessAllMissingEmbeddings
  \/ BatchBegin
  \/ \E call \in {"title", "description"} : ProviderAnswers(call)
  \/ \E call \in {"title", "description"} : ProviderFails(call)
  \/ BatchWrite

Spec == Init /\ [][Next]_vars

\* Every operation that writes vectors, one after the other.
Quiet == JobFree /\ UpdateFree

\* Stores of freshly ingested rows: one row with both texts; a whitespace-only
\* title ahead of a title to embed; two rows with both texts; a title to
\* embed ahead of a blank title with a description
MaintStores ==
  {<<Row(1, a, b, "burglary", Today, NULL, NULL)>>,
   <<Row(1, blank, ABSENT, "burglary", Today, NULL, NULL),
     Row(2, a, ABSENT, "burglary", Today, NULL, NULL)>>,
   <<Row(1, a, b, "burglary", Today, NULL, NULL),
     Row(2, a, b, "burglary", Today, NULL, NULL)>>,
   <<Row(1, a, ABSENT, "burglary", Today, NULL, NULL),
     Row(2, blank, b, "burglary", Today, NULL, NULL)>>}

InitMaint == InitWith(MaintStores, BOOLEAN)

\* The backfill invoked again and again, without end, on a fixed store of
\* InitMaint.  The store rejects writes of a run only if it accepted every
\* write of the run before, every pending step is taken in the end, and the
\* endpoint is called again whenever no job is running.
\* POST process-missing, one more time (these calls are not counted in nOps)
ProcessAllMissingEmbeddingsAgain ==
  /\ JobFree
  /\ job' = BatchJob("processAllMissing", SelectSeq(AllRows(incidents), MissingEmbedding), job)
  /\ UNCHANGED <<openai, embeddingCache, calls, generated, incidents, search, returned, nOps,
                 update, similar, stats>>

BatchWriteSettling ==
  /\ BatchWrite
  /\ job'.errors > job.errors => job.prev.errors = 0

NextConverge ==
  \/ ProcessAllMissingEmbeddingsAgain
  \/ BatchBegin
  \/ \E call \in {"title", "description"} : ProviderAnswers(call)
  \/ \E call \in {"title", "description"} : ProviderFails(call)
  \/ BatchWriteSettling

SpecConverge ==
  /\ InitMaint
  /\ [][NextConverge]_vars
  /\ WF_vars(ProcessAllMissingEmbeddingsAgain)
  /\ WF_vars(BatchBegin)
  /\ WF_vars(\E call \in {"title", "description"} :
               ProviderAnswers(call) \/ ProviderFails(call))
  /\ WF_vars(BatchWriteSettling)

NextMaint ==
  \/ Quiet /\ ProcessAllMissingEmbeddings
  \/ Quiet /\ ProcessBatchEmbeddings(AllRows(incidents))
  \/ Quiet /\ RebuildAllEmbeddings
  \/ Quiet /\ \E incidentId \in 1..(Cardinality(DOMAIN incidents) + 1) :
          UpdateIncidentEmbeddings(incidentId)
  \/ BatchBegin
  \/ \E call \in {"title", "description", "update"} : ProviderAnswers(call)
  \/ \E call \in {"title", "description", "update"} : ProviderFails(call)
  \/ BatchWrite
  \/ UpdateEmbed
  \/ UpdateCollect
  \/ \E ok \in BOOLEAN : UpdateWrite(ok)

SpecMaint == InitMaint /\ [][NextMaint]_vars

\* The diagnostic endpoints next to the operations that write vectors, on a
\* store with one embedded and one freshly ingested row.  (The failures of
\* the writers' own provider calls and of the single-record write are left to
\* SpecMaint.)
DiagStore ==
  <<Row(1, a, b, "burglary", Today, ProviderEmbedding(a), ProviderEmbedding(b)),
    Row(2, b, ABSENT, "burglary", Today, NULL, NULL)>>

InitDiag == InitWith({DiagStore}, BOOLEAN)

NextDiag ==
  \/ ClearCache
  \/ GetEmbeddingStats
  \/ TestEmbedding(a)
  \/ TestBatchEmbedding(<<a, b>>)
  \/ Quiet /\ ProcessAllMissingEmbeddings
  \/ Quiet /\ ProcessBatchEmbeddings(AllRows(incidents))
  \/ Quiet /\ RebuildAllEmbeddings
  \/ Quiet /\ UpdateIncidentEmbeddings(2)
  \/ BatchBegin
  \/ \E call \in {"diag", "title", "description", "update"} : ProviderAnswers(call)
  \/ ProviderFails("diag")
  \/ BatchWrite
  \/ UpdateEmbed
  \/ UpdateCollect
  \/ UpdateWrite(TRUE)

SpecDiag == InitDiag /\ [][NextDiag]_vars

\* The backfill job and the single-record update as two requests in flight at
\* once, each working from the rows it read when it started.
NextRace ==
  \/ ProcessAllMissingEmbeddings
  \/ \E incidentId \in DOMAIN incidents : UpdateIncidentEmbeddings(incidentId)
  \/ BatchBegin
  \/ \E call \in {"title", "description", "update"} : ProviderAnswers(call)
  \/ \E call \in {"title", "description", "update"} : ProviderFails(call)
  \/ BatchWrite
  \/ UpdateEmbed
  \/ UpdateCollect
  \/ \E ok \in BOOLEAN : UpdateWrite(ok)

SpecRace == InitDiag /\ [][NextRace]_vars

\* POST semantic-search requests, valid and invalid, from the controller on.
QueryStore ==
  <<Row(1, a, ABSENT, "burglary", Today, ProviderEmbedding(a), NULL),
    Row(2, b, ABSENT, "burglary", Today, ProviderEmbedding(b), NULL)>>

Queries == {a, b, blank, <<>>}

\* Filters with a negative threshold or a start date that does not parse
QueryFilters ==
  [categories : {NoCategories},
   startDate : {Absent, InvalidDate},
   endDate : {Absent},
   similarityThreshold : {Absent, 300, -500}]

InitQuery == InitWith({QueryStore}, BOOLEAN)

NextQuery ==
  \/ \E query \in Queries, limit \in {Absent} \cup 1..MaxLimit, filters \in QueryFilters :
       SearchRequest(query, limit, filters)
  \/ ProviderAnswers("query")
  \/ ProviderFails("query")
  \/ \E tieAsc \in BOOLEAN : SearchAnswer(tieAsc)

SpecQuery == InitQuery /\ [][NextQuery]_vars

\* The fallback generator on every short text over a few code units, and on
\* a text of digits and letters whose hash is 0.
MockUnits == {0, 32, 97, 98, 65}

zeroHash == Chars(<<102, 53, 97, 53, 97, 54, 48, 56>>)

MockTexts ==
  {zeroHash} \cup UNION {{Chars(codes) : codes \in [1..n -> MockUnits]} : n \in 1..MaxMockLen}

InitMock == InitWith({LargeStore(1)}, {FALSE})

NextMock == nOps = 0 /\ \E text \in MockTexts : TestEmbedding(text)

SpecMock == InitMock /\ [][NextMock]_vars

\* generateBatchEmbeddings on inputs of more than batchSize texts: distinct
\* texts, with an empty-looking text at every 40th position and the text a,
\* which an earlier request may have cached, at every 15th; and an input of
\* nothing but empty-looking texts.
BigTexts(n) ==
  [k \in 1..n |-> IF k % 40 = 0 THEN blank
                  ELSE IF k % 15 = 7 THEN a
                  ELSE Chars(<<19968 + k>>)]

BigBatches == {BigTexts(batchSize + 5), BigTexts(2 * batchSize + 50), <<<<>>, blank>>}

InitBatch == InitWith({LargeStore(1)}, BOOLEAN)

NextBatch ==
  \/ nOps = 0 /\ TestEmbedding(a)
  \/ \E texts \in BigBatches : TestBatchEmbedding(texts)
  \/ ProviderAnswers("diag")
  \/ ProviderFails("diag")

SpecBatch == InitBatch /\ [][NextBatch]_vars

\* The cache keys of texts that differ in case or outer blanks only, and of
\* two different texts, 'az' and 'b[', whose simpleHash is the same.
KeyTexts == {a, Chars(<<97, 122>>), Chars(<<32, 65, 90>>), Chars(<<98, 91>>)}

NextKeys ==
  \/ \E text \in KeyTexts : TestEmbedding(text)
  \/ \E t1 \in KeyTexts, t2 \in KeyTexts : TestBatchEmbedding(<<t1, t2>>)
  \/ ProviderAnswers("diag")
  \/ ProviderFails("diag")

SpecKeys == InitEmb /\ [][NextKeys]_vars

\* One backfill job on a store of several sub-batches.
InitLarge == InitWith(LargeStores, BOOLEAN)

NextLarge ==
  \/ job.pc = "idle" /\ ProcessAllMissingEmbeddings
  \/ /\ job.pc = "idle"
     /\ \E n \in {0, 1, BATCH_SIZE, BATCH_SIZE + 1} :
          ProcessBatchEmbeddings(SubSeq(AllRows(incidents), 1, n))
  \/ BatchBegin
  \/ \E call \in {"title", "description"} : ProviderAnswers(call)
  \/ \E call \in {"title", "description"} : ProviderFails(call)
  \/ BatchWrite

SpecLarge == InitLarge /\ [][NextLarge]_vars

\* Similarity queries over stores whose rows have their vectors.
Vectored(title) == IF title = d THEN NULL ELSE ProviderEmbedding(title)

\* The rows a store is made of: at distance 0, 0.134 and 0.5 from the query or
\* without a vector, of either category, dated today or five days ago.
RowKinds ==
  {<<a, "burglary", Today>>, <<a, "robbery", Today>>, <<a, "burglary", Today - 5>>,
   <<b, "burglary", Today>>, <<b, "robbery", Today - 5>>,
   <<c, "burglary", Today>>, <<d, "burglary", Today>>}

SearchStores ==
  UNION {{[id \in 1..n |-> Row(id, kind[id][1], ABSENT, kind[id][2], kind[id][3],
                               Vectored(kind[id][1]), NULL)] :
            kind \in [1..n -> RowKinds]} :
         n \in 1..MaxSearchStore}

\* More rows under the default threshold than the default limit admits
CrowdedStore ==
  [id \in 1..(DefaultLimit + 2) |->
     Row(id, IF id % 2 = 1 THEN b ELSE a, ABSENT, "burglary", Today,
         ProviderEmbedding(IF id % 2 = 1 THEN b ELSE a), NULL)]

Filters ==
  [categories : {NoCategories, {}, {"burglary"}},
   startDate : {Absent, Today - 6, InvalidDate},
   endDate : {Absent, Today - 1},
   similarityThreshold : {Absent, 0, 300}]

InitSearch == InitWith(SearchStores \cup {CrowdedStore}, {TRUE})

\* A query leaves the store as it found it, so one query per behaviour
\* covers every query the store can answer.
NextSearch ==
  /\ ~search.called
  /\ \E limit \in {Absent} \cup 1..MaxLimit, filters \in Filters, tieAsc \in BOOLEAN :
       SemanticSearch(ProviderEmbedding(a), limit, filters, tieAsc)

SpecSearch == InitSearch /\ [][NextSearch]_vars

\* "Find similar" requests over stores whose rows have their vectors.
opposite == Chars(<<103>>)

\* Rows at distance 0, 0.134 and 2 from a row titled a, dated today or five
\* days ago, and a row without a vector
SimilarKinds == {<<a, Today>>, <<b, Today>>, <<b, Today - 5>>, <<opposite, Today>>, <<d, Today>>}

SimilarStores ==
  UNION {{[id \in 1..n |-> Row(id, kind[id][1], ABSENT, "burglary", kind[id][2],
                               Vectored(kind[id][1]), NULL)] :
            kind \in [1..n -> SimilarKinds]} :
         n \in 1..MaxSimilarStore}

InitSimilar == InitWith(SimilarStores, {TRUE})

NextSimilar ==
  /\ ~similar.called
  /\ \E incidentId \in 1..(MaxSimilarStore + 1), limit \in {Absent} \cup 1..MaxLimit,
        tieAsc \in BOOLEAN :
       FindSimilarIncidents(incidentId, limit, tieAsc)

SpecSimilar == InitSimilar /\ [][NextSimilar]_vars

\* ============================================================== properties
\* ---- C1
SubBatches(list) == (Len(list) + BATCH_SIZE - 1) \div BATCH_SIZE

SubBatchSize(list, k) == Len(Slice(list, (k - 1) * BATCH_SIZE))

\* The records of the sub-batches whose outcome is threw
RECURSIVE SizesWhere(_, _, _, _)
SizesWhere(list, outcomes, k, threw) ==
  IF k > Len(outcomes) THEN 0
  ELSE (IF outcomes[k] = threw THEN SubBatchSize(list, k) ELSE 0)
       + SizesWhere(list, outcomes, k + 1, threw)

\* C1: processBatchEmbeddings never throws: a job that has returned has run
\* every sub-batch of its list, also those after a sub-batch that threw; its
\* processed is the total size of the sub-batches that did not throw and its
\* errors the total size of those that did.
C1_BatchIsolation ==
  /\ job.pc \in {"idle", "loop", "gen", "done"}
  /\ job.pc = "done" =>
       /\ Len(job.outcomes) = SubBatches(job.list)
       /\ job.ret.processed = SizesWhere(job.list, job.outcomes, 1, FALSE)
       /\ job.ret.errors = SizesWhere(job.list, job.outcomes, 1, TRUE)

\* A job has returned whose first sub-batch threw and whose next one did not.
C1_Witness ==
  /\ job.pc = "done"
  /\ Len(job.outcomes) >= 2
  /\ job.outcomes[1]
  /\ ~job.outcomes[2]
  /\ job.ret.processed > 0
  /\ job.ret.errors = BATCH_SIZE

\* ---- C2
\* C2: when processAllMissingEmbeddings has run to completion without errors
\* and runs again with nothing in between, the second run reports processed = 0.
C2_SecondBackfillProcessesNothing ==
  (/\ job.pc = "done"
   /\ job.op = "processAllMissing"
   /\ job.prev.op = "processAllMissing"
   /\ job.prev.errors = 0) => job.ret.processed = 0

\* ---- C3
\* C3: as long as clearCache is not called, no text is submitted to the
\* provider more than once and the fallback generator runs for no text more
\* than once.
C3_GeneratedAtMostOnce ==
  \A t \in DOMAIN generated : generated[t].provider <= 1 /\ generated[t].mock <= 1

\* ---- C4
FallbackUsed(call) == ~openai \/ call.failed

\* C4: a generateEmbedding or generateBatchEmbeddings call that has returned
\* holds a vector for every non-blank text it was given, and where the provider
\* is unconfigured or its call failed, that vector is the fallback vector of
\* the text.
C4_ProviderFailureYieldsFallback ==
  LET call == calls["diag"]
  IN call.pc = "done" =>
       /\ (call.op = "single" /\ ~IsBlank(call.text)) =>
            /\ call.ret[1] # NULL
            /\ FallbackUsed(call) => call.ret[1] = generateMockEmbedding(call.text)
       /\ call.op = "batch" =>
            /\ Len(call.ret) = Len(call.validTexts)
            /\ \A k \in 1..Len(call.ret) :
                 /\ call.ret[k] # NULL
                 /\ (FallbackUsed(call) /\ k \in Range(call.uncachedIndices))
                      => call.ret[k] = generateMockEmbedding(call.validTexts[k])

C6_SuppliedThresholdFilters ==
  (/\ search.called
   /\ ~search.threw
   /\ search.filters.similarityThreshold # Absent) =>
     \A k \in 1..Len(search.results) :
       search.results[k].similarity_score < search.filters.similarityThreshold

\* ---- C7
Qualifying(store, query) ==
  {row \in Range(AllRows(store)) : Selected(row, query.embedding, query.filters)}

ReturnedIds(query) == {query.results[k].id : k \in 1..Len(query.results)}

\* C7: semanticSearch returns at most limit records (20 when the caller gives
\* no limit), each a different qualifying record with its distance, in
\* non-decreasing order of distance; a qualifying record is left out only when
\* the result is full and no returned record is farther from the query.
C7_RankedAndCapped ==
  (search.called /\ ~search.threw) =>
    LET res == search.results
        cap == IF search.limit = Absent THEN 20 ELSE search.limit
    IN /\ Len(res) <= cap
       /\ \A k \in 1..(Len(res) - 1) : res[k].similarity_score <= res[k + 1].similarity_score
       /\ Cardinality(ReturnedIds(search)) = Len(res)
       /\ \A k \in 1..Len(res) :
            /\ incidents[res[k].id] \in Qualifying(incidents, search)
            /\ res[k].similarity_score
                 = CosineDistance(incidents[res[k].id].title_vector, search.embedding)
       /\ \A row \in Qualifying(incidents, search) :
            row.id \notin ReturnedIds(search) =>
              /\ Len(res) = cap
              /\ \A k \in 1..Len(res) :
                   res[k].similarity_score
                     <= CosineDistance(row.title_vector, search.embedding)

\* A query without a limit has returned 20 records at two different distances
\* and left qualifying records out.
C7_Witness ==
  /\ search.called
  /\ ~search.threw
  /\ search.limit = Absent
  /\ Len(search.results) = 20
  /\ search.results[1].similarity_score < search.results[20].similarity_score
  /\ \E row \in Qualifying(incidents, search) : row.id \notin ReturnedIds(search)

C9_UnfilteredQueryReturnsAllClose ==
  (/\ search.called
   /\ ~search.threw
   /\ search.filters.categories = NoCategories
   /\ search.filters.startDate = Absent
   /\ search.filters.endDate = Absent
   /\ Len(search.results) < LimitOr(search.limit)) =>
     \A row \in Range(AllRows(incidents)) :
       (/\ row.title_vector # NULL
        /\ CosineDistance(row.title_vector, search.embedding)
             < ThresholdOr(search.filters.similarityThreshold))
         => row.id \in ReturnedIds(search)

\* ---- C10
StoredVectors ==
  {incidents[id].title_vector : id \in DOMAIN incidents}
    \cup {incidents[id].description_vector : id \in DOMAIN incidents}

CachedVectors == {embeddingCache[key] : key \in DOMAIN embeddingCache}

\* C10: all vectors in the store and in the cache have one and the same
\* dimension, whether the provider or the fallback generator produced them.
C10_OneDimension ==
  \A v, w \in (StoredVectors \cup CachedVectors) \ {NULL} : v.dim = w.dim

\* ---- C11
\* C11: whatever processAllMissingEmbeddings, processBatchEmbeddings,
\* updateIncidentEmbeddings and rebuildAllEmbeddings have done, a record whose
\* title is empty, whitespace-only or absent has no title vector, and a record
\* whose description is so has no description vector.
C11_NoVectorForBlankText ==
  \A id \in DOMAIN incidents :
    /\ IsBlank(incidents[id].title) => incidents[id].title_vector = NULL
    /\ IsBlank(incidents[id].description) => incidents[id].description_vector = NULL

\* ---- C12
AllTextsNonBlank ==
  \A id \in DOMAIN incidents :
    ~IsBlank(incidents[id].title) /\ ~IsBlank(incidents[id].description)

\* C12: rebuildAllEmbeddings starts its backfill from a store without any
\* vector and over all records; when every record has a non-blank title and
\* description and it returns with errors = 0, every record has both vectors
\* and processed is the number of records.
C12_RebuildClearsThenRegenerates ==
  job.op = "rebuildAll" =>
    /\ (job.pc = "loop" /\ job.i = 0) =>
         /\ \A id \in DOMAIN incidents :
              incidents[id].title_vector = NULL /\ incidents[id].description_vector = NULL
         /\ Len(job.list) = Cardinality(DOMAIN incidents)
    /\ (job.pc = "done" /\ job.ret.errors = 0 /\ AllTextsNonBlank) =>
         /\ \A id \in DOMAIN incidents :
              incidents[id].title_vector # NULL /\ incidents[id].description_vector # NULL
         /\ job.ret.processed = Cardinality(DOMAIN incidents)

\* A rebuild has returned without errors on a store of records with texts, one
\* of which had vectors before and one of which had none.
C12_Witness ==
  /\ job.op = "rebuildAll"
  /\ job.pc = "done"
  /\ job.ret.errors = 0
  /\ AllTextsNonBlank
  /\ job.had # {}
  /\ job.had # DOMAIN incidents
  /\ job.ret.processed = 2

\* ---- C13
\* C13: a findSimilarIncidents request for a record that does not exist or
\* has no stored vector fails, and returns no result list.
C13_SimilarToMissingFails ==
  (similar.called /\ (similar.id \notin DOMAIN incidents
                      \/ incidents[similar.id].title_vector = NULL))
    => similar.threw

\* ---- C14
NoFilters ==
  [categories |-> NoCategories, startDate |-> Absent, endDate |-> Absent,
   similarityThreshold |-> Absent]

\* The store with record X removed
Without(store, incidentId) == SelectSeq(AllRows(store), LAMBDA row : row.id # incidentId)

\* C14: for a record X with a stored vector, findSimilarIncidents(X, limit)
\* returns what semanticSearch returns for X's vector with no filters, the
\* default threshold and the same limit over the store without X, in the
\* same order, and X is not among the results.
C14_SimilarIsSearchWithoutSelf ==
  (similar.called /\ similar.id \in DOMAIN incidents
     /\ incidents[similar.id].title_vector # NULL)
    => /\ \E tieAsc \in BOOLEAN :
            similar.results =
              semanticSearch(Without(incidents, similar.id), incidents[similar.id].title_vector,
                             SimilarLimitOr(similar.limit), NoFilters, tieAsc).results
       /\ \A k \in 1..Len(similar.results) : similar.results[k].id # similar.id

\* ---- C15
\* C15: updateIncidentEmbeddings for an id that is not in the store ends in
\* the not-found error at once: the step that takes the request starts no
\* provider or fallback call and leaves the cache and the store as they were,
\* and no later step acts for that request.
C15_UpdateOfMissingRecordFails ==
  [][(update' # update /\ update'.id \notin DOMAIN incidents)
       => /\ update'.pc = "threw"
          /\ update'.updates = <<>>
          /\ UNCHANGED <<embeddingCache, incidents, generated, calls>>]_vars

\* An update request for a missing id has failed, after an update of an
\* existing record has written its vectors
C15_Witness ==
  /\ update.pc = "threw"
  /\ update.id \notin DOMAIN incidents
  /\ \E id \in DOMAIN incidents : incidents[id].title_vector # NULL

\* ---- C16
\* A step in which a diagnostic embedding request is taken
DiagRequestTaken ==
  \/ \E text \in DiagTexts : TestEmbedding(text)
  \/ \E texts \in DiagBatches : TestBatchEmbedding(texts)

Cached(text) == ~IsBlank(text) /\ createCacheKey(text) \in DOMAIN embeddingCache

\* C16: while a vector is held in the cache under the key of text t, a
\* generateEmbedding(t) returns that vector at once and generates nothing, and a
\* generateBatchEmbeddings containing t fills t's position with that vector,
\* sends t to no generator and returns the position as filled; a text whose
\* key is not held is generated; after clearCache the cache has size 0 and
\* holds the key of no text.
C16_CacheRoundTrip ==
  [][/\ (DiagRequestTaken /\ calls'["diag"].op = "single" /\ Cached(calls'["diag"].text))
          => /\ calls'["diag"].pc = "done"
             /\ calls'["diag"].ret = <<embeddingCache[createCacheKey(calls'["diag"].text)]>>
             /\ generated' = generated
     /\ (DiagRequestTaken /\ calls'["diag"].op = "single"
           /\ ~IsBlank(calls'["diag"].text) /\ ~Cached(calls'["diag"].text))
          => generated' # generated
     /\ (DiagRequestTaken /\ calls'["diag"].op = "batch")
          => \A k \in 1..Len(calls'["diag"].validTexts) :
               Cached(calls'["diag"].validTexts[k])
                 => /\ calls'["diag"].results[k] =
                         embeddingCache[createCacheKey(calls'["diag"].validTexts[k])]
                    /\ k \notin Range(calls'["diag"].uncachedIndices)
     /\ (calls["diag"].op = "batch" /\ calls["diag"].pc = "await" /\ calls'["diag"].pc = "done")
          => \A k \in 1..Len(calls["diag"].results) :
               k \notin Range(calls["diag"].uncachedIndices)
                 => calls'["diag"].ret[k] = calls["diag"].results[k]
     /\ ClearCache
          => /\ getCacheStats(embeddingCache').size = 0
             /\ \A text \in DiagTexts : createCacheKey(text) \notin DOMAIN embeddingCache'
    ]_vars

\* generateEmbedding has returned a provider vector without waiting for the
\* provider: a cache hit
C16_Witness ==
  /\ calls["diag"].op = "single"
  /\ calls["diag"].pc = "done"
  /\ calls["diag"].uncachedTexts = <<>>
  /\ calls["diag"].ret[1].src = "provider"

\* ---- C17
\* A step of clearCache, of the stats endpoint (getEmbeddingStats and
\* getCacheStats), of testEmbedding or of testBatchEmbedding, to their return
DiagnosticStep ==
  \/ ClearCache
  \/ GetEmbeddingStats
  \/ TestEmbedding(a)
  \/ TestBatchEmbedding(<<a, b>>)
  \/ ProviderAnswers("diag")
  \/ ProviderFails("diag")

\* A step in which a backfill job or a single-record update is at work
WriterStep ==
  \/ job' # job /\ job'.op \in {"processAllMissing", "processBatch", "rebuildAll"}
  \/ update.pc = "write" /\ update'.pc = "done"

\* C17: clearCache, the stats endpoint, testEmbedding and testBatchEmbedding
\* leave the title_vector and description_vector of every record as they
\* are; a step that changes a persisted vector is a step of
\* processAllMissingEmbeddings, processBatchEmbeddings, rebuildAllEmbeddings
\* or updateIncidentEmbeddings.
C17_DiagnosticsWriteNoVector ==
  [][/\ DiagnosticStep => incidents' = incidents
     /\ incidents' # incidents => WriterStep]_vars

\* The cache has been cleared after updateIncidentEmbeddings stored a provider
\* vector for record 2, a test embedding has returned and the statistics have
\* been read: the vector is still in the store.
C17_Witness ==
  /\ embeddingCache = EmptyMap
  /\ update.pc = "done"
  /\ incidents[2].title_vector # NULL
  /\ incidents[2].title_vector.src = "provider"
  /\ calls["diag"].op = "single"
  /\ calls["diag"].pc = "done"
  /\ stats.asked

\* ---- C18
\* The request in progress or just answered has an empty or whitespace-only
\* query text, a negative threshold or a date that does not parse
InvalidQuery ==
  /\ "filters" \in DOMAIN search
  /\ calls["query"].op = "single"
  /\ \/ IsBlank(calls["query"].text)
     \/ search.filters.similarityThreshold # Absent /\ search.filters.similarityThreshold < 0
     \/ search.filters.startDate = InvalidDate
     \/ search.filters.endDate = InvalidDate

\* C18: for an invalid similarity query the provider is not called and the
\* request ends in an error.
C18_InvalidQueryRejectedFirst ==
  InvalidQuery =>
    /\ calls["query"].pc # "await"
    /\ ~calls["query"].failed
    /\ search.called => search.threw

\* ---- C19
\* C19: the fallback vector generateEmbedding returns for a non-empty text
\* is a unit vector of finite components: the magnitude its components were
\* divided by is not 0.
C19_FallbackVectorIsUnit ==
  (calls["diag"].op = "single" /\ calls["diag"].pc = "done"
     /\ Length(calls["diag"].text) > 0 /\ calls["diag"].ret[1].src = "mock")
    => /\ ~MagnitudeIsZero(calls["diag"].ret[1].hash)
       /\ ~HasNaN(calls["diag"].ret[1])

\* ---- C20
\* v is a vector of text: the fallback vector of its first MaxInputChars
\* characters, or a provider vector of a text with the same cache key
IsVectorOf(v, text) ==
  \/ v.src = "mock" /\ v.hash = simpleHash(substring(text, MaxInputChars))
  \/ /\ v.src = "provider"
     /\ createCacheKey(v.text) = createCacheKey(substring(text, MaxInputChars))

NonEmptyInputs(texts) == SelectSeq(texts, LAMBDA t : Length(t) > 0 /\ Length(trim(t)) > 0)

\* C20: a generateBatchEmbeddings call that has returned has returned one
\* vector for each input that is neither empty nor whitespace-only, in input
\* order and with no entry missing, however many chunks the provider was
\* sent and whatever part of the input was served from the cache.
C20_BatchReturnsOnePerNonEmptyInput ==
  (calls["diag"].op = "batch" /\ calls["diag"].pc = "done")
    => LET inputs == NonEmptyInputs(calls["diag"].texts)
       IN /\ Len(calls["diag"].ret) = Len(inputs)
          /\ \A k \in 1..Len(calls["diag"].ret) :
               /\ calls["diag"].ret[k] # NULL
               /\ IsVectorOf(calls["diag"].ret[k], inputs[k])

\* A batch with empty-looking inputs has returned after more than two
\* provider chunks, with some positions served from the cache
C20_Witness ==
  /\ calls["diag"].op = "batch"
  /\ calls["diag"].pc = "done"
  /\ ~calls["diag"].failed
  /\ Len(calls["diag"].ret) < Len(calls["diag"].texts)
  /\ Len(calls["diag"].uncachedTexts) > 2 * batchSize
  /\ Len(calls["diag"].uncachedTexts) < Len(calls["diag"].ret)

\* ---- C21
\* C21: when a backfill job has returned, the vector stored for a record's
\* non-blank title (description) is in the cache under the key of that text.
C21_GeneratedVectorsAreCached ==
  job.pc = "done" =>
    \A id \in DOMAIN incidents :
      /\ (~IsBlank(incidents[id].title) /\ incidents[id].title_vector # NULL)
           => /\ createCacheKey(incidents[id].title) \in DOMAIN embeddingCache
              /\ embeddingCache[createCacheKey(incidents[id].title)]
                   = incidents[id].title_vector
      /\ (~IsBlank(incidents[id].description) /\ incidents[id].description_vector # NULL)
           => /\ createCacheKey(incidents[id].description) \in DOMAIN embeddingCache
              /\ embeddingCache[createCacheKey(incidents[id].description)]
                   = incidents[id].description_vector

\* ---- C22
\* C22: when a backfill job has returned with errors = 0, every record of its
\* input whose title (description) is neither empty nor whitespace-only has a
\* title (description) vector in the store.
C22_CountsAreTruthful ==
  (job.pc = "done" /\ job.ret.errors = 0) =>
    \A k \in 1..Len(job.list) :
      /\ ~IsBlank(job.list[k].title) => incidents[job.list[k].id].title_vector # NULL
      /\ ~IsBlank(job.list[k].description)
           => incidents[job.list[k].id].description_vector # NULL

\* ---- C23
\* The job is at a multiple of BATCH_SIZE, has run the sub-batches before it
\* and counted each of their records once; the sub-batch it is at holds the
\* next records of the input, at most BATCH_SIZE of them, in input order; on
\* return every record has been counted once.
SubBatchesPartitionInput ==
  job.pc \in {"loop", "gen", "done"} =>
    /\ job.i % BATCH_SIZE = 0
    /\ Len(job.outcomes) = job.i \div BATCH_SIZE
    /\ job.processed + job.errors = (IF job.i < Len(job.list) THEN job.i ELSE Len(job.list))
    /\ job.pc \in {"loop", "gen"} =>
         LET batch == Slice(job.list, job.i)
         IN /\ job.i < Len(job.list)
            /\ Len(batch) \in 1..BATCH_SIZE
            /\ Len(batch) = BATCH_SIZE \/ job.i + Len(batch) = Len(job.list)
            /\ \A p \in 1..Len(batch) : batch[p] = job.list[job.i + p]
    /\ job.pc = "done" =>
         /\ job.i >= Len(job.list)
         /\ job.ret.processed + job.ret.errors = Len(job.list)
         /\ Len(job.list) = 0 => job.ret = [processed |-> 0, errors |-> 0]

\* A job given an empty input returns in the step that takes it, and that
\* step calls neither the embeddings service nor the store
EmptyInputReturnsAtOnce ==
  (job' # job /\ job.pc \in {"idle", "done"} /\ Len(job'.list) = 0)
    => /\ job'.pc = "done"
       /\ UNCHANGED <<calls, generated, embeddingCache, incidents>>

\* C23: processBatchEmbeddings runs consecutive sub-batches of at most
\* BATCH_SIZE records in input order, every record in exactly one of them, so
\* that processed + errors is the number of input records on return; an empty
\* input returns {processed: 0, errors: 0} with no provider or store call.
C23_SubBatchesPartitionInput ==
  []SubBatchesPartitionInput /\ [][EmptyInputReturnsAtOnce]_vars

\* A job over 2 * BATCH_SIZE + 1 records has returned after three sub-batches
C23_Witness ==
  /\ job.pc = "done"
  /\ Len(job.list) = 2 * BATCH_SIZE + 1
  /\ Len(job.outcomes) = 3
  /\ job.ret.processed + job.ret.errors = 2 * BATCH_SIZE + 1

\* ---- C24
\* C24: a vector the backfill has stored in a record's title_vector
\* (description_vector) is a vector of that record's own title (description).
C24_WriteBackAligned ==
  \A id \in DOMAIN incidents :
    /\ incidents[id].title_vector # NULL
         => IsVectorOf(incidents[id].title_vector, incidents[id].title)
    /\ incidents[id].description_vector # NULL
         => IsVectorOf(incidents[id].description_vector, incidents[id].description)

\* ---- C25
\* C25: a processSingleBatch whose sub-batch is counted in errors has stored
\* no vector: the step that adds the sub-batch to errors leaves the store as
\* it was.
C25_FailedSubBatchWritesNothing ==
  [][(job.pc = "gen" /\ job'.errors > job.errors) => incidents' = incidents]_vars

\* ---- C26
\* C26: when generateBatchEmbeddings has returned, the vector it returned for
\* a text whose key the cache holds is the cached vector.
C26_BatchResultAgreesWithCache ==
  (calls["diag"].op = "batch" /\ calls["diag"].pc = "done") =>
    \A k \in 1..Len(calls["diag"].ret) :
      createCacheKey(calls["diag"].validTexts[k]) \in DOMAIN embeddingCache
        => calls["diag"].ret[k] = embeddingCache[createCacheKey(calls["diag"].validTexts[k])]

\* ---- C27
\* What generateEmbedding(text) returns from the given cache and provider
\* state, the provider call (if one is made) answering (ok) or failing
SingleOutcome(text, cache, configured, ok) ==
  LET s == SingleStart(text, cache, configured)
  IN IF s.call.pc = "done" THEN s.call.ret
     ELSE SingleResume(s.call, cache, ok).call.ret

\* What generateBatchEmbeddings([text]) returns from the same state
BatchOutcome(text, cache, configured, ok) ==
  LET s == BatchStart(<<text>>, cache, configured)
  IN IF s.call.pc = "done" THEN s.call.ret
     ELSE BatchResume(s.call, cache, ok).call.ret

\* C27: from every state of cache and provider, and whether the provider
\* answers or fails, generateBatchEmbeddings([t]) returns the one-element
\* list of the vector generateEmbedding(t) returns, for every non-empty t.
C27_SingleAndBatchAgree ==
  \A text \in DiagTexts, ok \in BOOLEAN :
    ~IsBlank(text) =>
      BatchOutcome(text, embeddingCache, openai, ok)
        = SingleOutcome(text, embeddingCache, openai, ok)

\* ---- C28
\* The text as the cache key sees it
Normalized(text) == trim(toLowerCase(text))

\* C28: a vector served from the cache, by generateEmbedding or at a
\* position of generateBatchEmbeddings, was generated for a text that equals
\* the requested text after lowercasing and trimming.
C28_CacheHitIsForSameText ==
  /\ (calls["diag"].op = "single" /\ calls["diag"].pc = "done"
        /\ calls["diag"].uncachedTexts = <<>> /\ calls["diag"].ret[1].src = "provider")
       => Normalized(calls["diag"].ret[1].text) = Normalized(calls["diag"].text)
  /\ (calls["diag"].op = "batch" /\ calls["diag"].pc = "done")
       => \A k \in 1..Len(calls["diag"].ret) :
            (k \notin Range(calls["diag"].uncachedIndices)
               /\ calls["diag"].ret[k].src = "provider")
              => Normalized(calls["diag"].ret[k].text)
                   = Normalized(calls["diag"].validTexts[k])

\* ---- C29
\* Every text that is there has its vector
Converged ==
  \A id \in DOMAIN incidents :
    /\ Truthy(incidents[id].title) => incidents[id].title_vector # NULL
    /\ Truthy(incidents[id].description) => incidents[id].description_vector # NULL

\* Every text with something to embed has its vector
ConvergedOnText ==
  \A id \in DOMAIN incidents :
    /\ ~IsBlank(incidents[id].title) => incidents[id].title_vector # NULL
    /\ ~IsBlank(incidents[id].description) => incidents[id].description_vector # NULL

BackfillConvergesOnText ==
  /\ <>ConvergedOnText
  /\ [][ConvergedOnText => incidents' = incidents]_vars

\* ---- C30
\* The records an operation in flight was given or has read
InputIds == {job.list[k].id : k \in 1..Len(job.list)} \cup {update.id}

\* C30: processAllMissingEmbeddings, processBatchEmbeddings and
\* updateIncidentEmbeddings, also when two of them are in flight at once, never
\* write a (record, field) that already holds a vector and never change a
\* record outside their input.
C30_OnlyGapsAreFilled ==
  [][\A id \in DOMAIN incidents :
       /\ incidents[id].title_vector # NULL
            => incidents'[id].title_vector = incidents[id].title_vector
       /\ incidents[id].description_vector # NULL
            => incidents'[id].description_vector = incidents[id].description_vector
       /\ id \notin InputIds => incidents'[id] = incidents[id]]_vars

====
